---- MODULE Spec2Model ----
(***************************************************************************)
(* Model of q.py: conversion of LabelMe annotation files into index and    *)
(* colour segmentation masks (auto_detect_classes, generate_class_colors,  *)
(* json_to_mask, process_labelme_folder and the __main__ driver).          *)
(*                                                                         *)
(* Labels are tuples of code points, compared as Python compares str.      *)
(* A file name is a record [stem, ext]; a path is [abs, parts].            *)
(* A canvas is one row of pixels 1..imageWidth; a polygon is given by two  *)
(* points <<lo, hi>> and covers the pixels lo..hi.                         *)
(***************************************************************************)
EXTENDS Integers, Sequences, FiniteSets, TLC

\* ---------------------------------------------------------------- bounds
NumPixels == 2
MaxShapes == 2

\* ------------------------------------------------------ program constants
ChannelMin == 50
ChannelMax == 255

Background == <<98, 97, 99, 107, 103, 114, 111, 117, 110, 100>>
Ant == <<97, 110, 116>>
Cat == <<99, 97, 116>>
LabelUniverse == {Ant, Background, Cat}

Black == <<0, 0, 0>>

\* ------------------------------------------------------------ file names
Name(stem, ext) == [stem |-> stem, ext |-> ext]
Path(abs, parts) == [abs |-> abs, parts |-> parts]

InputDir == Path(FALSE, <<Name("all", "")>>)

AJson == Name("a", "json")
BJson == Name("b", "json")
ImgPng == Name("img", "png")
SubDir == Name("sub", "")

RelImg == Path(FALSE, <<ImgPng>>)
SubImg == Path(FALSE, <<SubDir, ImgPng>>)
AbsOther == Path(TRUE, <<Name("data", ""), Name("other", "jpg")>>)
NoPath == Path(FALSE, <<>>)

\* os.path.isabs
IsAbs(p) == p.abs

\* os.path.basename
Basename(p) ==
  IF p.parts = <<>> THEN NoPath ELSE Path(FALSE, <<p.parts[Len(p.parts)]>>)

\* os.path.join(a, b)
Join(a, b) == IF b.abs THEN b ELSE Path(a.abs, a.parts \o b.parts)

\* os.path.splitext(os.path.basename(p))[0]
ImageName(p) == Basename(p).parts[1].stem

\* filename.endswith('.json')
EndsWithJson(n) == n.ext = "json"

\* ------------------------------------------------------ str comparison
RECURSIVE LexLess(_, _)
LexLess(s, t) ==
  IF s = <<>> THEN t # <<>>
  ELSE IF t = <<>> THEN FALSE
  ELSE IF s[1] < t[1] THEN TRUE
  ELSE IF s[1] > t[1] THEN FALSE
  ELSE LexLess(Tail(s), Tail(t))

\* sorted(all_labels)
RECURSIVE Sorted(_)
Sorted(S) ==
  IF S = {} THEN <<>>
  ELSE LET m == CHOOSE x \in S : \A y \in S : x = y \/ LexLess(x, y)
       IN  <<m>> \o Sorted(S \ {m})

\* ------------------------------------------- dict (insertion ordered)
Item(k, v) == [label |-> k, id |-> v]
DictHas(d, k) == \E i \in 1..Len(d) : d[i].label = k
DictGet(d, k) == d[CHOOSE i \in 1..Len(d) : d[i].label = k].id
DictPut(d, k, v) ==
  IF DictHas(d, k)
  THEN [i \in 1..Len(d) |-> IF d[i].label = k THEN Item(k, v) ELSE d[i]]
  ELSE Append(d, Item(k, v))
DictKeys(d) == {d[i].label : i \in 1..Len(d)}
DictIds(d) == {d[i].id : i \in 1..Len(d)}

\* ------------------------------------------------- auto_detect_classes
\* A file's content: valid = json.load succeeds; hasSize = the record has
\* imageWidth / imageHeight; shapes = sequence of [label, points].
Shape(label, points) == [label |-> label, points |-> points]
Content(valid, hasSize, imagePath, shapes) ==
  [valid |-> valid, hasSize |-> hasSize, imagePath |-> imagePath,
   shapes |-> shapes]

LabelsOf(content) == {content.shapes[i].label : i \in 1..Len(content.shapes)}

AddLabelsOverwrite(all_labels, content) ==
  IF content.valid THEN LabelsOf(content) ELSE all_labels

\* body of the try block of auto_detect_classes for one file
AddLabels(all_labels, content) ==
  IF content.valid THEN all_labels \cup LabelsOf(content) ELSE all_labels

RECURSIVE Enumerate(_, _, _)
Enumerate(d, labels, i) ==
  IF labels = <<>> THEN d
  ELSE Enumerate(DictPut(d, Head(labels), i), Tail(labels), i + 1)

\* class_mapping = {"background": 0}; for i, label in enumerate(sorted, 1)
ClassMappingOf(all_labels) ==
  Enumerate(<<Item(Background, 0)>>, Sorted(all_labels), 1)

\* ------------------------------------------------ generate_class_colors
RandomColors == {<<c, c, c>> : c \in {ChannelMin, ChannelMax}}

\* every list generate_class_colors(num_classes) can return (sampled)
Palettes(num_classes) ==
  {<<Black>> \o t : t \in
     [1..(IF num_classes > 1 THEN num_classes - 1 ELSE 0) -> RandomColors]}

\* -------------------------------------------------------- json_to_mask
Covers(points, p) == points[1] <= p /\ p <= points[2]

\* ImageDraw.polygon(polygon, fill=...)
FillPolygon(canvas, points, fill) ==
  [p \in DOMAIN canvas |-> IF Covers(points, p) THEN fill ELSE canvas[p]]

Canvases(raised, mask, color_mask) ==
  [raised |-> raised, mask |-> mask, color_mask |-> color_mask]

RECURSIVE DrawShapesFirstWins(_, _, _, _)
DrawShapesFirstWins(shapes, c, mapping, colors) ==
  IF shapes = <<>> \/ c.raised THEN c
  ELSE LET shape == shapes[Len(shapes)]
           rest == SubSeq(shapes, 1, Len(shapes) - 1)
       IN  IF ~DictHas(mapping, shape.label)
           THEN DrawShapesFirstWins(rest, c, mapping, colors)
           ELSE LET class_id == DictGet(mapping, shape.label)
                IN  IF class_id >= Len(colors)
                    THEN Canvases(TRUE, c.mask, c.color_mask)
                    ELSE DrawShapesFirstWins(rest,
                           Canvases(FALSE,
                             FillPolygon(c.mask, shape.points, class_id),
                             FillPolygon(c.color_mask, shape.points,
                                         colors[class_id + 1])),
                           mapping, colors)

RECURSIVE DrawShapesStrict(_, _, _, _)
DrawShapesStrict(shapes, c, mapping, colors) ==
  IF shapes = <<>> \/ c.raised THEN c
  ELSE LET shape == Head(shapes)
       IN  IF ~DictHas(mapping, shape.label)
           THEN Canvases(TRUE, c.mask, c.color_mask)
           ELSE LET class_id == DictGet(mapping, shape.label)
                IN  IF class_id >= Len(colors)
                    THEN Canvases(TRUE, c.mask, c.color_mask)
                    ELSE DrawShapesStrict(Tail(shapes),
                           Canvases(FALSE,
                             FillPolygon(c.mask, shape.points, class_id),
                             FillPolygon(c.color_mask, shape.points,
                                         colors[class_id + 1])),
                           mapping, colors)

\* the loop "for shape in data['shapes']"; raised = class_colors[class_id]
\* raised IndexError
RECURSIVE DrawShapes(_, _, _, _)
DrawShapes(shapes, c, mapping, colors) ==
  IF shapes = <<>> \/ c.raised THEN c
  ELSE LET shape == Head(shapes)
       IN  IF ~DictHas(mapping, shape.label)
           THEN DrawShapes(Tail(shapes), c, mapping, colors)
           ELSE LET class_id == DictGet(mapping, shape.label)
                IN  IF class_id >= Len(colors)
                    THEN Canvases(TRUE, c.mask, c.color_mask)
                    ELSE DrawShapes(Tail(shapes),
                           Canvases(FALSE,
                             FillPolygon(c.mask, shape.points, class_id),
                             FillPolygon(c.color_mask, shape.points,
                                         colors[class_id + 1])),
                           mapping, colors)

SaveNothing(dir, name, img) == dir

\* Image.save(os.path.join(dir, name))
Save(dir, name, img) == (name :> img) @@ dir

MaskName(image_name) == Name(image_name, "png")
ColorMaskName(image_name) == Name(image_name \o "_color", "png")

\* json_to_mask: raised = an exception left the function (nothing saved)
JsonToMask(content, masks_dir, color_masks_dir, mapping, colors) ==
  IF ~content.valid \/ ~content.hasSize
  THEN [raised |-> TRUE, masks |-> masks_dir, color_masks |-> color_masks_dir]
  ELSE LET blank == Canvases(FALSE, [p \in 1..NumPixels |-> 0],
                             [p \in 1..NumPixels |-> Black])
           c == DrawShapes(content.shapes, blank, mapping, colors)
           image_name == ImageName(content.imagePath)
       IN  IF c.raised
           THEN [raised |-> TRUE, masks |-> masks_dir,
                 color_masks |-> color_masks_dir]
           ELSE [raised |-> FALSE,
                 masks |-> Save(masks_dir, MaskName(image_name), c.mask),
                 color_masks |-> Save(color_masks_dir,
                                      ColorMaskName(image_name),
                                      c.color_mask)]

\* ----------------------------------------------- process_labelme_folder
\* image_path of lines 102-108
ResolveWholePath(input_dir, image_filename) ==
  IF ~IsAbs(image_filename) THEN Join(input_dir, image_filename)
  ELSE image_filename

ResolveImagePath(input_dir, image_filename) ==
  IF ~IsAbs(image_filename)
  THEN Join(input_dir, Basename(image_filename))
  ELSE image_filename

\* os.path.exists
Exists(filesystem, p) == p \in DOMAIN filesystem

CopyStepUnchecked(filesystem, image_path) ==
  IF Exists(filesystem, image_path) /\ filesystem[image_path] = "file"
  THEN "copied" ELSE "raised"

\* lines 110-115: "copied", "skipped" (warning) or "raised" (shutil.copy2
\* raises, e.g. the path is a directory)
CopyStep(filesystem, image_path) ==
  IF Exists(filesystem, image_path)
  THEN IF filesystem[image_path] = "file" THEN "copied" ELSE "raised"
  ELSE "skipped"

CountedLossy(counts, status) ==
  IF status = "processed"
  THEN [processed |-> counts.processed + 1, errors |-> counts.errors]
  ELSE counts

\* processed_count += 1 at the end of the try block, error_count += 1 in
\* the except block
Counted(counts, status) ==
  IF status = "processed"
  THEN [processed |-> counts.processed + 1, errors |-> counts.errors]
  ELSE [processed |-> counts.processed, errors |-> counts.errors + 1]

\* os.listdir(input_dir)
ListDir(jsons, filesystem, input_dir) ==
  DOMAIN jsons \cup
  {q.parts[Len(q.parts)] :
     q \in {r \in DOMAIN filesystem :
              /\ r.abs = input_dir.abs
              /\ Len(r.parts) = Len(input_dir.parts) + 1
              /\ SubSeq(r.parts, 1, Len(input_dir.parts)) = input_dir.parts}}

LogEntry(status, stage, image_path) ==
  [status |-> status, stage |-> stage, image_path |-> image_path]
NoLog == LogEntry("none", "none", NoPath)

\* ------------------------------------------------------------- state
VARIABLES
  files,            \* annotation files of the input directory: name -> content
  fs,               \* the other paths that exist: path -> "file" | "dir"
  caller,           \* "main" (__main__) or "api" (process_labelme_folder
                    \* called with a mapping of the caller's)
  run,              \* 1 or 2: which run of the batch on this input
  pc,               \* position in the program
  todo,             \* entries of os.listdir not yet iterated
  all_labels,       \* auto_detect_classes: all_labels
  class_mapping,    \* the dict, as its items in insertion order
  class_colors,     \* the palette list
  counts,           \* processed_count, error_count
  masks,            \* output masks/: name -> index canvas
  color_masks,      \* output color_masks/: name -> colour canvas
  images,           \* output images/: name -> path copied from
  class_colors_txt, \* lines of class_colors.txt (<<>>: not written)
  labels_txt,       \* lines of labels.txt (<<>>: not written)
  log,              \* per annotation file, what the run printed for it
  first             \* what the first run left behind, for comparison

vars == <<files, fs, caller, run, pc, todo, all_labels, class_mapping,
          class_colors, counts, masks, color_masks, images,
          class_colors_txt, labels_txt, log, first>>

\* ------------------------------------------------------------ inputs
Pixels == 1..NumPixels
Polygons == {pts \in Pixels \X Pixels : pts[1] <= pts[2]}
FullCanvas == <<1, NumPixels>>

AllShapes == {Shape(l, pts) : l \in LabelUniverse, pts \in Polygons}
ShapeSeqs == UNION {[1..n -> AllShapes] : n \in 0..MaxShapes}

\* records with at most one, full-canvas, shape
SmallShapeSeqs == {<<>>} \cup {<<Shape(l, FullCanvas)>> : l \in LabelUniverse}

BadJson == Content(FALSE, FALSE, NoPath, <<>>)
SmallContents ==
  {BadJson, Content(TRUE, FALSE, RelImg, <<Shape(Cat, FullCanvas)>>)} \cup
  {Content(TRUE, TRUE, ip, sh) :
     ip \in {RelImg, SubImg, AbsOther}, sh \in SmallShapeSeqs}
RasterContents == {Content(TRUE, TRUE, RelImg, sh) : sh \in ShapeSeqs}

\* what exists besides the annotation files; img is "missing", "file", "dir"
FileSystem(img) ==
  LET base == (Join(InputDir, Path(FALSE, <<SubDir>>)) :> "dir") @@
              (Join(InputDir, SubImg) :> "file") @@
              (AbsOther :> "file")
  IN  IF img = "missing" THEN base
      ELSE (Join(InputDir, RelImg) :> img) @@ base

\* well-formed mappings a caller of process_labelme_folder may pass
GivenMappings ==
  {<<Item(Background, 0)>>,
   <<Item(Background, 0), Item(Ant, 1)>>,
   <<Item(Background, 0), Item(Cat, 1)>>,
   <<Item(Background, 0), Item(Ant, 1), Item(Cat, 2)>>,
   <<Item(Background, 0), Item(Cat, 1), Item(Ant, 2)>>}

NoCounts == [processed |-> 0, errors |-> 0]
NoFirst == [class_mapping |-> <<>>, masks |-> <<>>, labels_txt |-> <<>>]

InitCommon ==
  /\ run = 1
  /\ todo = ListDir(files, fs, InputDir)
  /\ all_labels = {}
  /\ class_colors = <<>>
  /\ counts = NoCounts
  /\ masks = <<>>
  /\ color_masks = <<>>
  /\ images = <<>>
  /\ class_colors_txt = <<>>
  /\ labels_txt = <<>>
  /\ log = [f \in DOMAIN files |-> NoLog]
  /\ first = NoFirst

\* one annotation file with any shapes, run by __main__ or by a caller
InitRaster ==
  /\ \E c \in RasterContents : files = (AJson :> c)
  /\ fs = FileSystem("file")
  /\ \/ caller = "main" /\ pc = "detect" /\ class_mapping = <<>>
     \/ caller = "api" /\ pc = "start" /\ class_mapping \in GivenMappings
  /\ InitCommon

\* one or two annotation files of every kind, run by __main__
InitBatch ==
  /\ \E a \in SmallContents :
       \/ files = (AJson :> a)
       \/ \E b \in SmallContents : files = (AJson :> a) @@ (BJson :> b)
  /\ \E img \in {"missing", "file", "dir"} : fs = FileSystem(img)
  /\ caller = "main" /\ pc = "detect" /\ class_mapping = <<>>
  /\ InitCommon

Init == InitRaster \/ InitBatch

\* ------------------------------------------------------------ actions
\* one iteration of the loop of auto_detect_classes (lines 138-148)
DetectEntry ==
  /\ pc = "detect"
  /\ \E filename \in todo :
       /\ todo' = todo \ {filename}
       /\ all_labels' = IF EndsWithJson(filename)
                        THEN AddLabels(all_labels, files[filename])
                        ELSE all_labels
  /\ UNCHANGED <<files, fs, caller, run, pc, class_mapping, class_colors,
                 counts, masks, color_masks, images, class_colors_txt,
                 labels_txt, log, first>>

\* lines 150-155 and the call of line 168
BuildMapping ==
  /\ pc = "detect" /\ todo = {}
  /\ class_mapping' = ClassMappingOf(all_labels)
  /\ pc' = "start"
  /\ UNCHANGED <<files, fs, caller, run, todo, all_labels, class_colors,
                 counts, masks, color_masks, images, class_colors_txt,
                 labels_txt, log, first>>

\* lines 73-90: output folders, palette, counters, directory listing
StartProcess ==
  /\ pc = "start"
  /\ class_colors' \in Palettes(Len(class_mapping))
  /\ counts' = NoCounts
  /\ todo' = ListDir(files, fs, InputDir)
  /\ pc' = "process"
  /\ UNCHANGED <<files, fs, caller, run, all_labels, class_mapping, masks,
                 color_masks, images, class_colors_txt, labels_txt, log,
                 first>>

\* one iteration of the loop of process_labelme_folder (lines 90-121)
ProcessEntry ==
  /\ pc = "process"
  /\ \E filename \in todo :
       /\ todo' = todo \ {filename}
       /\ IF ~EndsWithJson(filename)
          THEN UNCHANGED <<counts, masks, color_masks, images, log>>
          ELSE LET data == files[filename]
                   r == JsonToMask(data, masks, color_masks, class_mapping,
                                   class_colors)
               IN  IF r.raised
                   THEN /\ counts' = Counted(counts, "error")
                        /\ log' = [log EXCEPT ![filename] =
                                     LogEntry("error", "mask", NoPath)]
                        /\ UNCHANGED <<masks, color_masks, images>>
                   ELSE LET image_path ==
                              ResolveImagePath(InputDir, data.imagePath)
                            copy == CopyStep(fs, image_path)
                            status == IF copy = "raised" THEN "error"
                                      ELSE "processed"
                        IN  /\ masks' = r.masks
                            /\ color_masks' = r.color_masks
                            /\ images' =
                                 IF copy = "copied"
                                 THEN (Basename(image_path).parts[1]
                                         :> image_path) @@ images
                                 ELSE images
                            /\ counts' = Counted(counts, status)
                            /\ log' = [log EXCEPT ![filename] =
                                         LogEntry(status, "copy", image_path)]
  /\ UNCHANGED <<files, fs, caller, run, pc, all_labels, class_mapping,
                 class_colors, class_colors_txt, labels_txt, first>>

Line(id, label, color) == [id |-> id, label |-> label, color |-> color]

\* the loop of lines 130-132; raised = class_colors[class_id] IndexError
RECURSIVE ColorLines(_, _, _)
ColorLines(items, colors, lines) ==
  IF items = <<>> THEN [raised |-> FALSE, lines |-> lines]
  ELSE IF Head(items).id >= Len(colors)
       THEN [raised |-> TRUE, lines |-> lines]
       ELSE ColorLines(Tail(items), colors,
              Append(lines, Line(Head(items).id, Head(items).label,
                                 colors[Head(items).id + 1])))

Header == Line(-1, <<>>, Black)

\* lines 123-132; an IndexError here is caught by nobody
WriteClassColors ==
  /\ pc = "process" /\ todo = {}
  /\ LET w == ColorLines(class_mapping, class_colors, <<Header>>)
     IN  /\ class_colors_txt' = w.lines
         /\ pc' = IF w.raised THEN "crashed"
                  ELSE IF caller = "main" THEN "labels" ELSE "done"
  /\ UNCHANGED <<files, fs, caller, run, todo, all_labels, class_mapping,
                 class_colors, counts, masks, color_masks, images,
                 labels_txt, log, first>>

\* lines 171-173
WriteLabels ==
  /\ pc = "labels"
  /\ labels_txt' = [i \in 1..Len(class_mapping) |->
                      <<class_mapping[i].id, class_mapping[i].label>>]
  /\ pc' = "done"
  /\ UNCHANGED <<files, fs, caller, run, todo, all_labels, class_mapping,
                 class_colors, counts, masks, color_masks, images,
                 class_colors_txt, log, first>>

\* the program is started again on the same input and output directories
Rerun ==
  /\ pc \in {"done", "crashed"} /\ run = 1 /\ caller = "main"
  /\ first' = [class_mapping |-> class_mapping, masks |-> masks,
               labels_txt |-> labels_txt]
  /\ run' = 2
  /\ pc' = "detect"
  /\ todo' = ListDir(files, fs, InputDir)
  /\ all_labels' = {}
  /\ class_mapping' = <<>>
  /\ class_colors' = <<>>
  /\ counts' = NoCounts
  /\ log' = [f \in DOMAIN files |-> NoLog]
  /\ UNCHANGED <<files, fs, caller, masks, color_masks, images,
                 class_colors_txt, labels_txt>>

Next ==
  \/ DetectEntry
  \/ BuildMapping
  \/ StartProcess
  \/ ProcessEntry
  \/ WriteClassColors
  \/ WriteLabels

Spec == Init /\ [][Next]_vars

NextTwice == Next \/ Rerun

SpecTwice == InitBatch /\ [][NextTwice]_vars

\* ------------------------------------------------- shared vocabulary
JsonFiles == {f \in DOMAIN files : EndsWithJson(f)}
InLoop == pc \in {"process", "labels", "done", "crashed"}
AfterLoop == pc \in {"labels", "done", "crashed"}
Visited(f) == InLoop /\ log[f].status # "none"
Range(seq) == {seq[i] : i \in 1..Len(seq)}

\* the record of f parses, has a size, and every mapped label of it has a
\* palette entry: json_to_mask has nothing to fail on
Drawable(f) ==
  /\ files[f].valid /\ files[f].hasSize
  /\ \A sh \in Range(files[f].shapes) :
       DictHas(class_mapping, sh.label) =>
         DictGet(class_mapping, sh.label) < Len(class_colors)

\* no other annotation file declares an image of the same base name
Unshared(f) ==
  \A g \in JsonFiles \ {f} :
    files[g].valid =>
      ImageName(files[g].imagePath) # ImageName(files[f].imagePath)

Resolved(f) == ResolveImagePath(InputDir, files[f].imagePath)
ImageMissing(f) == Resolved(f) \notin DOMAIN fs
ImageUnreadable(f) == Resolved(f) \in DOMAIN fs /\ fs[Resolved(f)] # "file"

IndexMask(f) == masks[MaskName(ImageName(files[f].imagePath))]
ColorMask(f) == color_masks[ColorMaskName(ImageName(files[f].imagePath))]
HasMasks(f) ==
  /\ MaskName(ImageName(files[f].imagePath)) \in DOMAIN masks
  /\ ColorMaskName(ImageName(files[f].imagePath)) \in DOMAIN color_masks
HasNoMask(f) ==
  /\ MaskName(ImageName(files[f].imagePath)) \notin DOMAIN masks
  /\ ColorMaskName(ImageName(files[f].imagePath)) \notin DOMAIN color_masks

\* indices of the shapes of f that have a mapped label and cover pixel p
MappedOver(f, p) ==
  {i \in 1..Len(files[f].shapes) :
     /\ DictHas(class_mapping, files[f].shapes[i].label)
     /\ Covers(files[f].shapes[i].points, p)}
Last(S) == CHOOSE i \in S : \A j \in S : j <= i

\* ------------------------------------------------------------- claims

\* C1: the mapping returned by auto_detect_classes maps "background" to
\* class id 0 and has exactly one entry for it, also when a shape of the
\* data carries the label "background".
C1_BackgroundIsZero ==
  (caller = "main" /\ pc # "detect") =>
    /\ Cardinality({i \in 1..Len(class_mapping) :
                      class_mapping[i].label = Background}) = 1
    /\ DictGet(class_mapping, Background) = 0

\* C2: the mapping auto_detect_classes builds does not depend on the order
\* in which os.listdir returns the files: a second run over the same
\* directory, whatever order it iterates in, builds the mapping of the first.
C2_OrderIndependent ==
  (run = 2 /\ pc # "detect") => class_mapping = first.class_mapping

C2_Witness ==
  /\ run = 2 /\ pc = "start"
  /\ Cardinality(JsonFiles) = 2
  /\ \E f \in JsonFiles, g \in JsonFiles :
       /\ files[f].valid /\ files[g].valid
       /\ LabelsOf(files[f]) # {} /\ LabelsOf(files[g]) # {}
       /\ LabelsOf(files[f]) # LabelsOf(files[g])
  /\ Len(class_mapping) = 3

\* C3: a failure on one .json file never aborts the batch: every .json
\* file is visited and counted exactly once, as processed or as an error,
\* and after the loop processed_count + error_count is the number of
\* .json files.
C3_EveryFileCountedOnce ==
  InLoop =>
    /\ counts.processed =
         Cardinality({f \in JsonFiles : log[f].status = "processed"})
    /\ counts.errors =
         Cardinality({f \in JsonFiles : log[f].status = "error"})
    /\ \A f \in JsonFiles : (f \in todo) <=> (log[f].status = "none")
    /\ AfterLoop =>
         /\ todo = {}
         /\ counts.processed + counts.errors = Cardinality(JsonFiles)

C3_Witness ==
  /\ AfterLoop
  /\ counts.errors = 1 /\ counts.processed = 1
  /\ \E f \in JsonFiles : ~files[f].valid

\* C4: a shape whose label is not in the mapping is skipped, and only it:
\* it changes no pixel of either mask, the mapped shapes of the record are
\* still drawn, the record is counted as processed, and a record whose
\* shapes are all unmapped yields an all-zero index mask.
C4_UnmappedShapeSkipped ==
  \A f \in JsonFiles :
    ( /\ Visited(f) /\ Drawable(f)
      /\ \E sh \in Range(files[f].shapes) :
           ~DictHas(class_mapping, sh.label) ) =>
      /\ log[f].stage = "copy"
      /\ ~ImageUnreadable(f) => log[f].status = "processed"
      /\ HasMasks(f)
      /\ Unshared(f) =>
           \A p \in Pixels :
             IF MappedOver(f, p) = {}
             THEN IndexMask(f)[p] = 0 /\ ColorMask(f)[p] = Black
             ELSE IndexMask(f)[p] \in
                    {DictGet(class_mapping, files[f].shapes[i].label) :
                       i \in MappedOver(f, p)}

C4_Witness ==
  \E f \in JsonFiles :
    /\ Visited(f) /\ Drawable(f) /\ log[f].status = "processed"
    /\ Len(files[f].shapes) = 2
    /\ DictHas(class_mapping, files[f].shapes[1].label)
    /\ ~DictHas(class_mapping, files[f].shapes[2].label)
    /\ files[f].shapes[2].points = FullCanvas
    /\ \E p \in Pixels : IndexMask(f)[p] # 0
    /\ \E p \in Pixels : IndexMask(f)[p] = 0

\* C5: when the resolved source image does not exist, both masks of the
\* record are still written, nothing is copied into images/ for it, and
\* the record is counted as processed.
C5_MissingImageStillProcessed ==
  \A f \in JsonFiles :
    (Visited(f) /\ Drawable(f) /\ ImageMissing(f)) =>
      /\ log[f].status = "processed"
      /\ HasMasks(f)
      /\ \A n \in DOMAIN images : images[n] # Resolved(f)
      /\ Resolved(f).parts[Len(Resolved(f).parts)] \notin DOMAIN images

C5_Witness ==
  \E f \in JsonFiles :
    /\ Visited(f) /\ Drawable(f) /\ ImageMissing(f)
    /\ log[f].status = "processed" /\ counts.processed >= 1
    /\ HasMasks(f)

\* C6: running the whole batch twice on the same unchanged input leaves
\* identical masks/ and labels.txt contents, whatever order the directory
\* listing has in either run.
C6_Idempotent ==
  (run = 2 /\ pc \in {"done", "crashed"}) =>
    /\ masks = first.masks
    /\ labels_txt = first.labels_txt

\* C7: the class ids of the detected mapping are unique and dense from 0,
\* the palette has one colour per class, every class id is a valid palette
\* index, and no colour lookup fails.
C7_DenseIdsValidPalette ==
  (caller = "main" /\ InLoop) =>
    /\ DictIds(class_mapping) = 0..(Len(class_mapping) - 1)
    /\ Len(class_colors) = Len(class_mapping)
    /\ \A id \in DictIds(class_mapping) : 0 <= id /\ id < Len(class_colors)
    /\ pc # "crashed"
    /\ \A f \in JsonFiles :
         (Visited(f) /\ files[f].valid /\ files[f].hasSize) =>
           log[f].stage = "copy"

\* C8: paint order: every pixel of the index mask holds the class id of
\* the last shape, in shape order, that has a mapped label and covers the
\* pixel (0 if none), and the colour mask holds the palette colour of that
\* class id (black if none).
C8_PaintOrder ==
  \A f \in JsonFiles :
    (Visited(f) /\ log[f].stage = "copy" /\ Unshared(f)) =>
      \A p \in Pixels :
        IF MappedOver(f, p) = {}
        THEN IndexMask(f)[p] = 0 /\ ColorMask(f)[p] = Black
        ELSE LET id == DictGet(class_mapping,
                         files[f].shapes[Last(MappedOver(f, p))].label)
             IN  /\ IndexMask(f)[p] = id
                 /\ ColorMask(f)[p] = class_colors[id + 1]

C8_Witness ==
  \E f \in JsonFiles :
    /\ Visited(f) /\ log[f].stage = "copy" /\ Unshared(f)
    /\ Len(files[f].shapes) = 2
    /\ files[f].shapes[1].points = FullCanvas
    /\ files[f].shapes[2].points = <<1, 1>>
    /\ DictHas(class_mapping, files[f].shapes[1].label)
    /\ DictHas(class_mapping, files[f].shapes[2].label)
    /\ DictGet(class_mapping, files[f].shapes[2].label)
         < DictGet(class_mapping, files[f].shapes[1].label)
    /\ IndexMask(f)[1] = DictGet(class_mapping, files[f].shapes[2].label)
    /\ IndexMask(f)[NumPixels] =
         DictGet(class_mapping, files[f].shapes[1].label)

\* C9 as stated: a relative imagePath is resolved by joining the input
\* directory with the whole relative path; an absolute one is used as-is.
C9_WholeRelativePath ==
  \A f \in JsonFiles :
    (Visited(f) /\ log[f].stage = "copy") =>
      log[f].image_path =
        IF files[f].imagePath.abs THEN files[f].imagePath
        ELSE Path(InputDir.abs, InputDir.parts \o files[f].imagePath.parts)

\* C9 amended: a relative imagePath is resolved by joining the input
\* directory with the base name of imagePath only (its directory
\* components are dropped); an absolute one is used as-is; the file found
\* there is what lands in images/.
C9_BasenameInInputDir ==
  \A f \in JsonFiles :
    (Visited(f) /\ log[f].stage = "copy") =>
      LET ip == files[f].imagePath
          want == IF ip.abs THEN ip
                  ELSE Path(InputDir.abs,
                            Append(InputDir.parts, ip.parts[Len(ip.parts)]))
      IN  /\ log[f].image_path = want
          /\ (want \in DOMAIN fs /\ fs[want] = "file") =>
               /\ ip.parts[Len(ip.parts)] \in DOMAIN images
               /\ images[ip.parts[Len(ip.parts)]] = want

C9_Witness ==
  \E f \in JsonFiles :
    /\ Visited(f) /\ log[f].stage = "copy"
    /\ files[f].imagePath = SubImg
    /\ log[f].image_path = Join(InputDir, RelImg)
    /\ ImgPng \in DOMAIN images
    /\ images[ImgPng] # Join(InputDir, SubImg)

\* C10 as stated: a file counted in error_count has no mask output; masks
\* exist only for records counted in processed_count.
C10_ErrorsHaveNoMasks ==
  \A f \in JsonFiles :
    (Visited(f) /\ files[f].valid /\ Unshared(f) /\ log[f].status = "error")
      => HasNoMask(f)

\* C10 amended: every record counted as processed has both masks written;
\* a record counted as an error because json_to_mask failed wrote no mask;
\* a record whose image copy raises after the masks were saved is counted
\* as an error although both of its masks exist.
C10_MasksAndCounters ==
  \A f \in JsonFiles :
    Visited(f) =>
      /\ log[f].status = "processed" => HasMasks(f)
      /\ (files[f].valid /\ ~Drawable(f)) =>
           /\ log[f].status = "error"
           /\ Unshared(f) => HasNoMask(f)
      /\ (Drawable(f) /\ ImageUnreadable(f)) =>
           /\ log[f].status = "error"
           /\ HasMasks(f)
      /\ (Drawable(f) /\ ~ImageUnreadable(f)) => log[f].status = "processed"
      /\ ~files[f].valid => log[f].status = "error"

C10_Witness ==
  \E f \in JsonFiles :
    /\ Visited(f) /\ Drawable(f) /\ ImageUnreadable(f)
    /\ log[f].status = "error" /\ counts.errors >= 1
    /\ HasMasks(f)

====
